---- MODULE Spec2Model ----
(***************************************************************************)
(* Model of nl80211scan (src/src/lib.rs): the scan() protocol exchange     *)
(* over generic netlink, the information-element (TLV) walk of             *)
(* extract_ssid / extract_element, and dbm_level_to_quality.               *)
(***************************************************************************)
EXTENDS Integers, Sequences, FiniteSets, TLC

VARIABLES
    \* ---- dbm_level_to_quality -------------------------------------------
    signal,     \* the i32 argument (hundredths of a dBm)
    quality,    \* the u8 returned, NoQuality before the call
    \* ---- extract_ssid / extract_element ---------------------------------
    elems,      \* the complete elements the blob was encoded from
    tail,       \* the bytes after them: empty, or one truncated element
    blob,       \* the information-element bytes the cursor is over
    cursor,     \* Cursor position, 0-based number of bytes consumed
    ssid,       \* the Vec<u8> extract_ssid returned
    tlvPc,      \* "idle" | "walk" | "done"
    calls,      \* number of extract_element calls made so far
    \* ---- scan() ---------------------------------------------------------
    pc,             \* the statement scan() is at
    outcome,        \* "running" | "ok" | "err" | "panic"
    sent,           \* requests handed to the kernel so far, in order
    ifaceDump,      \* the kernel's whole reply to GET_INTERFACE
    ifaceQueue,     \* the part of it not yet read from the socket
    msgs,           \* what recv returned at line 140, the rest of the loop
    interface,      \* the Interface of the current loop turn
    ackQueue,       \* the kernel's reply to TRIGGER_SCAN, unread
    kernelEvents,   \* multicast events the kernel has still to emit
    joined,         \* the listener socket of this turn is in group "scan"
    mcastQueue,     \* events delivered to the listener socket, unread
    missed,         \* events of this turn emitted while nobody was in the group
    waitBatches,    \* what recv returned at line 197, one entry per turn
    scanDump,       \* the kernel's whole reply to GET_SCAN
    scanQueue,      \* the part of it not yet read from the socket
    bssMsgs,        \* what recv returned at line 227, the rest of the loop
    printed         \* what scan() has written to stdout about networks

qvars == <<signal, quality>>
tvars == <<elems, tail, blob, cursor, ssid, tlvPc, calls>>
svars == <<pc, outcome, sent, ifaceDump, ifaceQueue, msgs, interface,
           ackQueue, kernelEvents, joined, mcastQueue, missed, waitBatches,
           scanDump, scanQueue, bssMsgs, printed>>
vars == <<signal, quality, elems, tail, blob, cursor, ssid, tlvPc, calls,
          pc, outcome, sent, ifaceDump, ifaceQueue, msgs, interface,
          ackQueue, kernelEvents, joined, mcastQueue, missed, waitBatches,
          scanDump, scanQueue, bssMsgs, printed>>

(***************************************************************************)
(* Generic helpers                                                         *)
(***************************************************************************)
Min(a, b) == IF a < b THEN a ELSE b

Max(a, b) == IF a > b THEN a ELSE b

Abs(a) == IF a < 0 THEN 0 - a ELSE a

\* All sequences over S of length 0..n
SeqsUpTo(S, n) == UNION {[1..k -> S] : k \in 0..n}

(***************************************************************************)
(* dbm_level_to_quality (lib.rs 291-298)                                   *)
(***************************************************************************)
I32Min == (0 - 2147483647) - 1

I32Max == 2147483647

\* val.clamp(-100., -40.) on signal / 100., kept in hundredths of a dBm
ClampLo == 0 - 10000

ClampHi == 0 - 4000

NoQuality == 0 - 1

\* Inputs whose exact value 100 - |dBm + 40| * 100 / 60 ends in .5 but whose
\* f64 evaluation (signal / 100., + 40., * 100., / 60.) lands just below the
\* half, so that f64::round gives the lower integer.
F64TieBelow ==
    { 0 - 9790, 0 - 9490, 0 - 9190, 0 - 8890, 0 - 8590, 0 - 8290,
      0 - 7990, 0 - 7870, 0 - 7690, 0 - 7570, 0 - 7390, 0 - 7270,
      0 - 7090, 0 - 6970, 0 - 6790, 0 - 6670, 0 - 6490, 0 - 6370 }

\* A version with the sign of the rescaling slipped and no final clamp:
\* `as u8` saturates at 255.
dbm_level_to_quality_plus(s) ==
    LET c == Min(Max(s, ClampLo), ClampHi)
        a == Abs(c + 4000)
    IN  Min(Max((6000 + a + 30) \div 60, 0), 255)

\* A version whose first clamp ends at -30 dBm instead of -40 dBm.
dbm_level_to_quality_wideband(s) ==
    LET c == Min(Max(s, ClampLo), 0 - 3000)
        a == Abs(c + 4000)
    IN  Min(Max((6000 - a + 30) \div 60, 0), 100)

\* A version that rescales the wrong way round (0 at -40 dBm).
dbm_level_to_quality_inverted(s) ==
    LET c == Min(Max(s, ClampLo), ClampHi)
        a == Abs(c + 4000)
    IN  Min(Max((a + 30) \div 60, 0), 100)

dbm_level_to_quality(s) ==
    LET c == Min(Max(s, ClampLo), ClampHi)          \* line 292-293
        a == Abs(c + 4000)                              \* line 294, x100
        exact == (6000 - a + 30) \div 60                \* line 295, half up
        r == IF c \in F64TieBelow THEN exact - 1 ELSE exact
    IN  Min(Max(r, 0), 100)                             \* line 296-297

\* How far outside the clamp band the checked inputs reach
SignalMargin == 40

SignalInputs ==
    ((ClampLo - SignalMargin)..(ClampHi + SignalMargin))
        \cup {I32Min, I32Min + 1, 0 - 1, 0, 1, I32Max - 1, I32Max}

QInit ==
    /\ signal \in SignalInputs
    /\ quality = NoQuality

\* one call of dbm_level_to_quality(signal)
Convert ==
    /\ quality = NoQuality
    /\ quality' = dbm_level_to_quality(signal)
    /\ UNCHANGED signal

(***************************************************************************)
(* extract_ssid / extract_element (lib.rs 273-289)                         *)
(***************************************************************************)
WLAN_EID_SSID == 0

\* Largest value of a data byte in a modelled blob
MaxByte == 1

\* Longest data part of a complete element
MaxDataLen == 1

\* Most complete elements in a blob
MaxElems == 2

Bytes == 0..MaxByte

\* Element ids: the SSID id and one other
Eids == {WLAN_EID_SSID, WLAN_EID_SSID + 1}

Element == [eid : Eids, data : SeqsUpTo(Bytes, MaxDataLen)]

\* wire form of one element: id byte, length byte, data bytes
EncodeElement(e) == <<e.eid, Len(e.data)>> \o e.data

RECURSIVE EncodeElements(_)
EncodeElements(es) ==
    IF es = <<>> THEN <<>>
    ELSE EncodeElement(Head(es)) \o EncodeElements(Tail(es))

\* An element cut short: the id byte alone, or id and length followed by
\* fewer data bytes than the length declares.
TruncatedTails ==
    {<<i>> : i \in Eids}
        \cup UNION { UNION { {<<i, n>> \o d : d \in SeqsUpTo(Bytes, n - 1)}
                              : n \in 1..(MaxDataLen + 1) } : i \in Eids }

None == [none |-> TRUE]

\* A version that hands out whatever bytes are left when fewer remain than
\* the length byte declares.
extract_element_nobounds(b, pos) ==
    IF pos + 2 > Len(b) THEN None
    ELSE LET size == b[pos + 2]
         IN  [none |-> FALSE, eid |-> b[pos + 1],
              data |-> SubSeq(b, pos + 3, Min(pos + 2 + size, Len(b))),
              next |-> pos + 2 + size]

\* A version that copies the data without moving the cursor over it.
extract_element_nomove(b, pos) ==
    IF pos + 2 > Len(b) THEN None
    ELSE LET size == b[pos + 2]
         IN  IF pos + 2 + size > Len(b) THEN None
             ELSE [none |-> FALSE, eid |-> b[pos + 1],
                   data |-> SubSeq(b, pos + 3, pos + 2 + size),
                   next |-> pos + 2]

\* cursor.read_u8(), read_u8(), read_exact(size): None when the bytes run out
extract_element(b, pos) ==
    IF pos + 1 > Len(b) THEN None                       \* line 284
    ELSE IF pos + 2 > Len(b) THEN None                  \* line 285
    ELSE LET size == b[pos + 2]
         IN  IF pos + 2 + size > Len(b) THEN None       \* line 287
             ELSE [none |-> FALSE, eid |-> b[pos + 1],
                   data |-> SubSeq(b, pos + 3, pos + 2 + size),
                   next |-> pos + 2 + size]

TInit ==
    /\ elems \in SeqsUpTo(Element, MaxElems)
    /\ tail \in {<<>>} \cup TruncatedTails
    /\ blob = EncodeElements(elems) \o tail
    /\ cursor = 0
    /\ ssid = <<>>
    /\ tlvPc = "walk"
    /\ calls = 0

\* one turn of the while-let loop of extract_ssid (lines 274-278), or its
\* exit to line 280
ExtractStep ==
    /\ tlvPc = "walk"
    /\ LET r == extract_element(blob, cursor)
       IN  /\ calls' = calls + 1
           /\ IF r.none
                THEN /\ tlvPc' = "done"
                     /\ ssid' = <<>>
                     /\ UNCHANGED cursor
                ELSE IF r.eid = WLAN_EID_SSID
                THEN /\ tlvPc' = "done"
                     /\ ssid' = r.data
                     /\ cursor' = r.next
                ELSE /\ cursor' = r.next
                     /\ UNCHANGED <<tlvPc, ssid>>
    /\ UNCHANGED <<elems, tail, blob>>

(***************************************************************************)
(* extract_ssid as one call (lib.rs 273-281), for scan()                   *)
(***************************************************************************)
RECURSIVE extract_ssid(_, _)
extract_ssid(b, pos) ==
    LET r == extract_element(b, pos)
    IN  IF r.none THEN <<>>                             \* line 280
        ELSE IF r.eid = WLAN_EID_SSID THEN r.data       \* line 275-276
        ELSE extract_ssid(b, r.next)

\* std::str::from_utf8 on the blobs of BssBlobs: ASCII bytes are valid, a
\* lone 0xFF is not
from_utf8_ok(bytes) == \A i \in 1..Len(bytes) : bytes[i] < 128

(***************************************************************************)
(* scan() (lib.rs 110-271) and the kernel it talks to                      *)
(***************************************************************************)
\* Most interfaces the kernel enumerates
MaxIfaces == 2

\* Most BSS entries in one GET_SCAN dump
MaxBss == 1

\* Most multicast events the kernel emits after one trigger
MaxEvents == 1

\* The interface the caller asks for: scan("wlan0"); an interface name is
\* modelled by its number, k for "wlan<k>"
RequestedName == 0

IfNames == 0..(MaxIfaces - 1)

DoneMsg == [kind |-> "done"]

\* A GET_INTERFACE data message; decodes is whether Interface::try_from
\* finds every attribute it asks for
IfaceMsgs == [kind : {"iface"}, name : IfNames, index : 1..MaxIfaces,
              decodes : BOOLEAN]

\* The kernel's dumps: one data message per interface, distinct names, the
\* i-th with index i, then the DONE terminator
IfaceDumps ==
    { d \o <<DoneMsg>> :
        d \in { q \in SeqsUpTo(IfaceMsgs, MaxIfaces) :
                  /\ \A i \in 1..Len(q) : q[i].index = i
                  /\ \A i, j \in 1..Len(q) :
                        q[i].name = q[j].name => i = j } }

\* Information-element blobs of the modelled BSS entries: an SSID of two
\* letters followed by another element, no SSID element, an empty SSID,
\* an SSID that is not UTF-8
BssBlobs == { <<0, 2, 72, 105, 1, 1, 7>>, <<1, 1, 7>>, <<0, 0>>,
              <<3, 0, 0, 1, 255>> }

\* A GET_SCAN data message: which of the attributes are there, and the
\* values of those that are
BssMsgs ==
    [kind : {"bss"}, hasBss : {TRUE}, hasSignal : {TRUE}, hasIe : {TRUE},
     signal : {0 - 5000}, ie : BssBlobs]
    \cup
    {[kind |-> "bss", hasBss |-> FALSE, hasSignal |-> FALSE,
      hasIe |-> FALSE, signal |-> 0, ie |-> <<>>],
     [kind |-> "bss", hasBss |-> TRUE, hasSignal |-> FALSE,
      hasIe |-> TRUE, signal |-> 0, ie |-> <<0, 0>>],
     [kind |-> "bss", hasBss |-> TRUE, hasSignal |-> TRUE,
      hasIe |-> FALSE, signal |-> 0 - 5000, ie |-> <<>>]}

ScanDumps == { d \o <<DoneMsg>> : d \in SeqsUpTo(BssMsgs, MaxBss) }

\* Nl80211Cmd of a multicast event of group "scan"
EventTags == {"NewScanResults", "ScanAborted", "TriggerScan"}

EventSeqs == SeqsUpTo(EventTags, MaxEvents)

Request(cmd, ifindex) == [cmd |-> cmd, ifindex |-> ifindex]

NoInterface == [kind |-> "none"]

SInit ==
    /\ pc = "connect"
    /\ outcome = "running"
    /\ sent = <<>>
    /\ ifaceDump = <<>>
    /\ ifaceQueue = <<>>
    /\ msgs = <<>>
    /\ interface = NoInterface
    /\ ackQueue = <<>>
    /\ kernelEvents = <<>>
    /\ joined = FALSE
    /\ mcastQueue = <<>>
    /\ missed = 0
    /\ waitBatches = <<>>
    /\ scanDump = <<>>
    /\ scanQueue = <<>>
    /\ bssMsgs = <<>>
    /\ printed = <<>>

\* `?` on an Err: scan() returns the error
ReturnErr ==
    /\ pc' = "returned"
    /\ outcome' = "err"

\* unwrap()/expect() on an Err: the task panics
Panic ==
    /\ pc' = "returned"
    /\ outcome' = "panic"

\* line 111-112: NlSocketHandle::connect(...).context(...)?
Connect ==
    /\ pc = "connect"
    /\ \E ok \in BOOLEAN :
         IF ok THEN pc' = "resolve_family" /\ UNCHANGED outcome
         ELSE ReturnErr
    /\ UNCHANGED <<sent, ifaceDump, ifaceQueue, msgs, interface, ackQueue,
                   kernelEvents, joined, mcastQueue, missed, waitBatches,
                   scanDump, scanQueue, bssMsgs, printed>>

\* line 116-118: resolve_genl_family(NL80211_FAMILY_NAME).context(...)?
ResolveFamily ==
    /\ pc = "resolve_family"
    /\ \E ok \in BOOLEAN :
         IF ok THEN pc' = "send_get_interface" /\ UNCHANGED outcome
         ELSE ReturnErr
    /\ UNCHANGED <<sent, ifaceDump, ifaceQueue, msgs, interface, ackQueue,
                   kernelEvents, joined, mcastQueue, missed, waitBatches,
                   scanDump, scanQueue, bssMsgs, printed>>

\* line 122-136: wrap the socket, build GET_INTERFACE with Request|Dump,
\* send it; the kernel queues its dump on the socket
SendGetInterface ==
    /\ pc = "send_get_interface"
    /\ \E ok \in BOOLEAN :
         IF ok
         THEN /\ \E d \in IfaceDumps :
                    /\ ifaceDump' = d
                    /\ ifaceQueue' = d
              /\ sent' = Append(sent, Request("GetInterface", 0))
              /\ pc' = "recv_interfaces"
              /\ UNCHANGED outcome
         ELSE /\ Panic
              /\ UNCHANGED <<sent, ifaceDump, ifaceQueue>>
    /\ UNCHANGED <<msgs, interface, ackQueue, kernelEvents, joined,
                   mcastQueue, missed, waitBatches, scanDump, scanQueue,
                   bssMsgs, printed>>

\* line 138-143: one recv, which returns the messages of one datagram: a
\* non-empty prefix of what the kernel queued
RecvInterfaces ==
    /\ pc = "recv_interfaces"
    /\ \E ok \in BOOLEAN :
         IF ok
         THEN /\ \E k \in 1..Len(ifaceQueue) :
                    /\ msgs' = SubSeq(ifaceQueue, 1, k)
                    /\ ifaceQueue' = SubSeq(ifaceQueue, k + 1, Len(ifaceQueue))
              /\ pc' = "for_msg"
              /\ UNCHANGED outcome
         ELSE /\ Panic
              /\ UNCHANGED <<msgs, ifaceQueue>>
    /\ UNCHANGED <<sent, ifaceDump, interface, ackQueue, kernelEvents, joined,
                   mcastQueue, missed, waitBatches, scanDump, scanQueue,
                   bssMsgs, printed>>

\* Interface::try_from (lines 84-105) of a data message
try_from_ok(m) == m.decodes

\* line 145-148 and 270: the head of the for loop over msgs (the sockets of
\* the previous turn are dropped), or the return after its last turn
ForMsg ==
    /\ pc = "for_msg"
    /\ IF msgs = <<>>
       THEN /\ pc' = "returned"
            /\ outcome' = "ok"
            /\ UNCHANGED <<msgs, interface>>
       ELSE IF Head(msgs).kind = "done"
       THEN /\ Panic                                  \* get_payload().unwrap()
            /\ UNCHANGED <<msgs, interface>>
       ELSE IF ~ try_from_ok(Head(msgs))
       THEN /\ msgs' = Tail(msgs)                     \* if let Ok(..) fails
            /\ UNCHANGED <<pc, outcome, interface>>
       ELSE /\ interface' = Head(msgs)
            /\ msgs' = Tail(msgs)
            /\ pc' = "send_trigger"
            /\ UNCHANGED outcome
    /\ UNCHANGED <<sent, ifaceDump, ifaceQueue, ackQueue, kernelEvents,
                   joined, mcastQueue, missed, waitBatches, scanDump,
                   scanQueue, bssMsgs, printed>>

\* line 150-179: a new socket, TRIGGER_SCAN with Request|Ack for
\* interface.index; the kernel answers with an acknowledgement or an error
\* message and has events to emit on group "scan"
SendTrigger ==
    /\ pc = "send_trigger"
    /\ \E ok \in BOOLEAN :
         IF ok
         THEN /\ sent' = Append(sent, Request("TriggerScan", interface.index))
              /\ \E reply \in {"ack", "nack"} : ackQueue' = <<reply>>
              /\ \E ev \in EventSeqs : kernelEvents' = ev
              /\ pc' = "recv_ack"
              /\ UNCHANGED outcome
         ELSE /\ Panic
              /\ UNCHANGED <<sent, ackQueue, kernelEvents>>
    /\ UNCHANGED <<ifaceDump, ifaceQueue, msgs, interface, joined,
                   mcastQueue, missed, waitBatches, scanDump, scanQueue,
                   bssMsgs, printed>>

\* line 181-182: recv of the reply; the NlBuffer it returns is dropped
\* without being looked at, only an I/O failure is unwrapped
RecvAck ==
    /\ pc = "recv_ack"
    /\ \E ok \in BOOLEAN :
         IF ok
         THEN /\ ackQueue' = <<>>
              /\ pc' = "join"
              /\ UNCHANGED outcome
         ELSE /\ Panic
              /\ UNCHANGED ackQueue
    /\ UNCHANGED <<sent, ifaceDump, ifaceQueue, msgs, interface,
                   kernelEvents, joined, mcastQueue, missed, waitBatches,
                   scanDump, scanQueue, bssMsgs, printed>>

\* line 184-193: a new socket, resolve_nl_mcast_group, add_mcast_membership
JoinMcast ==
    /\ pc = "join"
    /\ \E ok \in BOOLEAN :
         IF ok
         THEN /\ joined' = TRUE
              /\ pc' = "await"
              /\ UNCHANGED outcome
         ELSE /\ Panic
              /\ UNCHANGED joined
    /\ UNCHANGED <<sent, ifaceDump, ifaceQueue, msgs, interface, ackQueue,
                   kernelEvents, mcastQueue, missed, waitBatches, scanDump,
                   scanQueue, bssMsgs, printed>>

\* The kernel emits its next event on group "scan": a socket that is in the
\* group gets it, otherwise nobody does
KernelEmit ==
    /\ outcome = "running"
    /\ kernelEvents # <<>>
    /\ kernelEvents' = Tail(kernelEvents)
    /\ IF joined
       THEN /\ mcastQueue' = Append(mcastQueue, Head(kernelEvents))
            /\ UNCHANGED missed
       ELSE /\ missed' = missed + 1
            /\ UNCHANGED mcastQueue
    /\ UNCHANGED <<pc, outcome, sent, ifaceDump, ifaceQueue, msgs, interface,
                   ackQueue, joined, waitBatches, scanDump, scanQueue,
                   bssMsgs, printed>>

\* A version that takes any event for the completion notification.
received_new_scan_notification_any(batch) == batch # <<>>

\* line 203: .any(|payload| payload.cmd == Nl80211Cmd::NewScanResults)
received_new_scan_notification(batch) ==
    \E i \in 1..Len(batch) : batch[i] = "NewScanResults"

\* End of one turn of the loop over msgs: its sockets go out of scope
DropTurnSockets ==
    /\ joined' = FALSE
    /\ mcastQueue' = <<>>
    /\ kernelEvents' = <<>>
    /\ missed' = 0

\* A version of the wait with a timeout: when nothing has been delivered it
\* gives up and goes on as if a scan were running already.
AwaitNotification_timeout ==
    /\ pc = "await"
    /\ \/ /\ mcastQueue # <<>>
          /\ LET batch == <<Head(mcastQueue)>>
             IN  /\ waitBatches' = Append(waitBatches, batch)
                 /\ IF received_new_scan_notification(batch)
                    THEN /\ pc' = "send_get_scan"
                         /\ mcastQueue' = Tail(mcastQueue)
                         /\ UNCHANGED <<printed, joined, kernelEvents, missed>>
                    ELSE /\ pc' = "for_msg"
                         /\ printed' = Append(printed,
                              [line |-> "Already scanning"])
                         /\ DropTurnSockets
          /\ UNCHANGED outcome
       \/ /\ mcastQueue = <<>>
          /\ pc' = "for_msg"
          /\ printed' = Append(printed, [line |-> "Already scanning"])
          /\ DropTurnSockets
          /\ UNCHANGED <<waitBatches, outcome>>
       \/ /\ Panic
          /\ UNCHANGED <<waitBatches, mcastQueue, printed, joined,
                         kernelEvents, missed>>
    /\ UNCHANGED <<sent, ifaceDump, ifaceQueue, msgs, interface, ackQueue,
                   scanDump, scanQueue, bssMsgs>>

\* line 195-207 and 264-266: one recv on the listener, which blocks until
\* something was delivered and returns one datagram, that is one event;
\* then GET_SCAN, or "Already scanning" and the next turn
AwaitNotification ==
    /\ pc = "await"
    /\ \/ /\ mcastQueue # <<>>
          /\ LET batch == <<Head(mcastQueue)>>
             IN  /\ waitBatches' = Append(waitBatches, batch)
                 /\ IF received_new_scan_notification(batch)
                    THEN /\ pc' = "send_get_scan"
                         /\ mcastQueue' = Tail(mcastQueue)
                         /\ UNCHANGED <<printed, joined, kernelEvents, missed>>
                    ELSE /\ pc' = "for_msg"
                         /\ printed' = Append(printed,
                              [line |-> "Already scanning"])
                         /\ DropTurnSockets
          /\ UNCHANGED outcome
       \/ /\ Panic                                      \* recv fails
          /\ UNCHANGED <<waitBatches, mcastQueue, printed, joined,
                         kernelEvents, missed>>
    /\ UNCHANGED <<sent, ifaceDump, ifaceQueue, msgs, interface, ackQueue,
                   scanDump, scanQueue, bssMsgs>>

\* line 208-223: a new socket, GET_SCAN with Request|Dump for
\* interface.index; the kernel queues its dump on the socket
SendGetScan ==
    /\ pc = "send_get_scan"
    /\ \E ok \in BOOLEAN :
         IF ok
         THEN /\ sent' = Append(sent, Request("GetScan", interface.index))
              /\ \E d \in ScanDumps :
                    /\ scanDump' = d
                    /\ scanQueue' = d
              /\ pc' = "recv_scan"
              /\ UNCHANGED outcome
         ELSE /\ Panic
              /\ UNCHANGED <<sent, scanDump, scanQueue>>
    /\ UNCHANGED <<ifaceDump, ifaceQueue, msgs, interface, ackQueue,
                   kernelEvents, joined, mcastQueue, missed, waitBatches,
                   bssMsgs, printed>>

\* line 225-230: one recv, a non-empty prefix of the dump
RecvScan ==
    /\ pc = "recv_scan"
    /\ \E ok \in BOOLEAN :
         IF ok
         THEN /\ \E k \in 1..Len(scanQueue) :
                    /\ bssMsgs' = SubSeq(scanQueue, 1, k)
                    /\ scanQueue' = SubSeq(scanQueue, k + 1, Len(scanQueue))
              /\ pc' = "for_bss"
              /\ UNCHANGED outcome
         ELSE /\ Panic
              /\ UNCHANGED <<bssMsgs, scanQueue>>
    /\ UNCHANGED <<sent, ifaceDump, ifaceQueue, msgs, interface, ackQueue,
                   kernelEvents, joined, mcastQueue, missed, waitBatches,
                   scanDump, printed>>

\* line 245-260: what the loop body prints for a message that has all three
\* attributes
BssLines(m) ==
    LET s == extract_ssid(m.ie, 0)
    IN  [line |-> "bss", signal |-> m.signal,
         quality |-> dbm_level_to_quality(m.signal),
         ssid |-> IF from_utf8_ok(s) THEN s ELSE <<>>]

\* line 232-263: the head of the for loop over the GET_SCAN batch and one
\* turn of it, or the end of the turn of the outer loop
ForBss ==
    /\ pc = "for_bss"
    /\ IF bssMsgs = <<>>
       THEN /\ pc' = "for_msg"
            /\ bssMsgs' = <<>>
            /\ scanDump' = <<>>
            /\ scanQueue' = <<>>
            /\ DropTurnSockets
            /\ UNCHANGED <<outcome, printed>>
       ELSE LET m == Head(bssMsgs)
            IN  IF \/ m.kind = "done"                 \* line 233 unwrap
                   \/ ~ m.hasBss                      \* line 237 unwrap
                   \/ ~ m.hasSignal                   \* line 241 unwrap
                   \/ ~ m.hasIe                       \* line 251 unwrap
                THEN /\ Panic
                     /\ UNCHANGED <<bssMsgs, scanDump, scanQueue, printed,
                                    joined, mcastQueue, kernelEvents, missed>>
                ELSE /\ printed' = Append(printed, BssLines(m))
                     /\ bssMsgs' = Tail(bssMsgs)
                     /\ UNCHANGED <<pc, outcome, scanDump, scanQueue, joined,
                                    mcastQueue, kernelEvents, missed>>
    /\ UNCHANGED <<sent, ifaceDump, ifaceQueue, msgs, interface, ackQueue,
                   waitBatches>>

SIdle ==
    /\ pc = "idle"
    /\ outcome = "idle"
    /\ sent = <<>>
    /\ ifaceDump = <<>>
    /\ ifaceQueue = <<>>
    /\ msgs = <<>>
    /\ interface = NoInterface
    /\ ackQueue = <<>>
    /\ kernelEvents = <<>>
    /\ joined = FALSE
    /\ mcastQueue = <<>>
    /\ missed = 0
    /\ waitBatches = <<>>
    /\ scanDump = <<>>
    /\ scanQueue = <<>>
    /\ bssMsgs = <<>>
    /\ printed = <<>>

(***************************************************************************)
(* Specifications                                                          *)
(***************************************************************************)
TIdle ==
    /\ elems = <<>>
    /\ tail = <<>>
    /\ blob = <<>>
    /\ cursor = 0
    /\ ssid = <<>>
    /\ tlvPc = "idle"
    /\ calls = 0

QIdle ==
    /\ signal = 0
    /\ quality = NoQuality

QualityInit == QInit /\ TIdle /\ SIdle

QualityNext == Convert /\ UNCHANGED <<tvars, svars>>

QualitySpec == QualityInit /\ [][QualityNext]_vars

TlvInit == TInit /\ QIdle /\ SIdle

TlvNext == ExtractStep /\ UNCHANGED <<qvars, svars>>

TlvSpec == TlvInit /\ [][TlvNext]_vars

Init == SInit /\ QIdle /\ TIdle

Next ==
    \/ Connect /\ UNCHANGED <<qvars, tvars>>
    \/ ResolveFamily /\ UNCHANGED <<qvars, tvars>>
    \/ SendGetInterface /\ UNCHANGED <<qvars, tvars>>
    \/ RecvInterfaces /\ UNCHANGED <<qvars, tvars>>
    \/ ForMsg /\ UNCHANGED <<qvars, tvars>>
    \/ SendTrigger /\ UNCHANGED <<qvars, tvars>>
    \/ RecvAck /\ UNCHANGED <<qvars, tvars>>
    \/ JoinMcast /\ UNCHANGED <<qvars, tvars>>
    \/ KernelEmit /\ UNCHANGED <<qvars, tvars>>
    \/ AwaitNotification /\ UNCHANGED <<qvars, tvars>>
    \/ SendGetScan /\ UNCHANGED <<qvars, tvars>>
    \/ RecvScan /\ UNCHANGED <<qvars, tvars>>
    \/ ForBss /\ UNCHANGED <<qvars, tvars>>

Spec == Init /\ [][Next]_vars

\* The steps of the task itself, as opposed to those of the kernel
ScanStep ==
    \/ Connect
    \/ ResolveFamily
    \/ SendGetInterface
    \/ RecvInterfaces
    \/ ForMsg
    \/ SendTrigger
    \/ RecvAck
    \/ JoinMcast
    \/ AwaitNotification
    \/ SendGetScan
    \/ RecvScan
    \/ ForBss

\* A step of the task in which no socket operation fails: any turn of the
\* two for loops (their panics are decided by the message at hand), and the
\* successful branch of every other step
Progress ==
    /\ ScanStep
    /\ pc \in {"for_msg", "for_bss"} \/ outcome' \in {"running", "ok"}
    /\ UNCHANGED <<qvars, tvars>>

\* The runtime resumes the task whenever the socket it awaits is ready
\* (#[tokio::main], .await at lines 135, 142, 179, 182, 199, 223, 229);
\* nothing obliges a socket operation to fail or the kernel to emit
FairSpec == Spec /\ WF_vars(Progress)

(***************************************************************************)
(* Properties of scan()                                                    *)
(***************************************************************************)
\* TRIGGER_SCAN of the current turn is out and its notification has not
\* been read yet
TriggerOutstanding == pc \in {"recv_ack", "join", "await"}

\* C1: whenever TRIGGER_SCAN has been sent for an interface and the wait for
\* its notification is still to come, the socket that will wait is already a
\* member of multicast group "scan".
C1_JoinedBeforeTrigger == TriggerOutstanding => joined

AbortedSeen ==
    \E i \in 1..Len(waitBatches) :
        /\ \E j \in 1..Len(waitBatches[i]) : waitBatches[i][j] = "ScanAborted"
        /\ ~ received_new_scan_notification(waitBatches[i])

\* C2: once the multicast wait has yielded a scan-aborted tag, the
\* invocation has sent and sends no GET_SCAN, reports no network, and does
\* not end in an error or a panic.
C2_AlreadyScanningOutcome ==
    AbortedSeen =>
        /\ \A i \in 1..Len(sent) : sent[i].cmd # "GetScan"
        /\ \A i \in 1..Len(printed) : printed[i].line # "bss"
        /\ outcome \in {"running", "ok"}

\* the enumeration is over and no enumerated interface has the name asked for
NameAbsent ==
    /\ ifaceDump # <<>>
    /\ pc # "recv_interfaces"
    /\ \A i \in 1..Len(ifaceDump) :
          ifaceDump[i].kind = "iface" => ifaceDump[i].name # RequestedName

\* C3: when no enumerated interface has the requested name, nothing but
\* GET_INTERFACE is ever sent, no multicast group is joined, and the
\* invocation does not return success.
C3_AbsentNameNoNetwork ==
    NameAbsent =>
        /\ \A i \in 1..Len(sent) : sent[i].cmd = "GetInterface"
        /\ ~ joined
        /\ outcome # "ok"

\* C4: once the enumeration is received, everything the kernel queued up to
\* and including DONE has been read, and the messages handed to the loop
\* hold no DONE message.
C4_DumpAggregatedUntilDone ==
    (ifaceDump # <<>> /\ pc # "recv_interfaces") =>
        /\ ifaceQueue = <<>>
        /\ \A i \in 1..Len(msgs) : msgs[i].kind # "done"

\* C5: every network scan reports has a non-empty SSID.
C5_ReportedSsidNonEmpty ==
    \A i \in 1..Len(printed) :
        printed[i].line = "bss" => printed[i].ssid # <<>>

\* C11: every receive that ended a wait on the listener carried
\* NEW_SCAN_RESULTS or SCAN_ABORTED: a batch of other multicast commands
\* never ends the wait.
C11_OtherTrafficIgnored ==
    \A i \in 1..Len(waitBatches) :
        \E j \in 1..Len(waitBatches[i]) :
            waitBatches[i][j] \in {"NewScanResults", "ScanAborted"}

\* C12: the step that reads an error message as the reply to TRIGGER_SCAN
\* ends the invocation in failure; it does not go on to the join, the wait
\* or GET_SCAN.
C12_NackIsFatal ==
    [][(pc = "recv_ack" /\ ackQueue = <<"nack">> /\ pc' # "recv_ack")
          => (pc' = "returned" /\ outcome' \in {"err", "panic"})]_vars

\* the invocation panicked on a GET_SCAN data message that lacks the BSS
\* group, the signal strength or the information elements
PanickedOnBss ==
    /\ outcome = "panic"
    /\ bssMsgs # <<>>
    /\ Head(bssMsgs).kind = "bss"
    /\ ~ (Head(bssMsgs).hasBss /\ Head(bssMsgs).hasSignal /\ Head(bssMsgs).hasIe)

\* C13: a scan-result message without the BSS group, the signal strength or
\* the information elements never aborts the invocation.
C13_MalformedBssSkipped == ~ PanickedOnBss

\* C14: once the GET_SCAN reply is being processed, everything the kernel
\* queued up to and including DONE has been read, and the messages handed to
\* the BSS loop hold no DONE message.
C14_ScanDumpAggregatedUntilDone ==
    pc = "for_bss" =>
        /\ scanQueue = <<>>
        /\ \A i \in 1..Len(bssMsgs) : bssMsgs[i].kind # "done"

SentCount(cmd) == Cardinality({i \in 1..Len(sent) : sent[i].cmd = cmd})

\* C15: one invocation sends at most one TRIGGER_SCAN and at most one
\* GET_SCAN.
C15_OneInterfacePerInvocation ==
    /\ SentCount("TriggerScan") <= 1
    /\ SentCount("GetScan") <= 1

\* the loop has read and passed over the message of the interface asked
\* for, which does not decode
TargetUndecodablePassed ==
    \E i \in 1..(Len(ifaceDump) - Len(ifaceQueue) - Len(msgs)) :
        /\ pc # "recv_interfaces"
        /\ ifaceDump[i].kind = "iface"
        /\ ifaceDump[i].name = RequestedName
        /\ ~ ifaceDump[i].decodes

\* C16: once the message of the requested interface has failed to decode,
\* the invocation is over and has failed.
C16_TargetDecodeFailureFatal ==
    TargetUndecodablePassed =>
        (pc = "returned" /\ outcome \in {"err", "panic"})

\* a step in which socket open, family resolution or the resolution and
\* join of the multicast group fails
SetupFailureStep ==
    /\ pc \in {"connect", "resolve_family", "join"}
    /\ pc' = "returned"

\* C17: a setup step that fails returns an error, and nothing has been sent
\* to the kernel by then.
C17_SetupFailureBeforeExchange ==
    [][SetupFailureStep => (outcome' = "err" /\ sent' = <<>>)]_vars

\* number of TRIGGER_SCAN requests among the first i requests sent
TriggersUpTo(i) ==
    Cardinality({j \in 1..i : sent[j].cmd = "TriggerScan"})

HasNewScanResults(batch) ==
    \E j \in 1..Len(batch) : batch[j] = "NewScanResults"

\* requests whose reply has not been read at all
UnreadReplies ==
    (IF ifaceDump # <<>> /\ ifaceQueue = ifaceDump THEN 1 ELSE 0)
        + (IF ackQueue # <<>> THEN 1 ELSE 0)
        + (IF scanDump # <<>> /\ scanQueue = scanDump THEN 1 ELSE 0)

C6_QualityInRange == quality # NoQuality => quality \in 0..100

C6_Witness == signal = I32Min /\ quality = 0

\* C7: on the band -10000..-4000 the quality never decreases as the signal
\* increases.
C7_QualityMonotone ==
    (quality # NoQuality /\ signal \in ClampLo..ClampHi) =>
        \A y \in signal..ClampHi : quality <= dbm_level_to_quality(y)

C7_Witness == signal = 0 - 5000 /\ quality = 83

\* C8: the quality is 100 for every input >= -4000 and 0 for every
\* input <= -10000.
C8_QualitySaturates ==
    quality # NoQuality =>
        /\ signal >= ClampHi => quality = 100
        /\ signal <= ClampLo => quality = 0

C8_Witness == signal = ClampHi /\ quality = 100

(***************************************************************************)
(* Properties of extract_ssid                                              *)
(***************************************************************************)
HasSsidElement(es) == \E i \in 1..Len(es) : es[i].eid = WLAN_EID_SSID

FirstSsidData(es) ==
    LET i == CHOOSE k \in 1..Len(es) :
                /\ es[k].eid = WLAN_EID_SSID
                /\ \A j \in 1..(k - 1) : es[j].eid # WLAN_EID_SSID
    IN  es[i].data

\* C9: on a blob that is a sequence of complete elements of which one has
\* id 0, the walk returns the data of the first element with id 0.
C9_FirstSsidElement ==
    (tlvPc = "done" /\ tail = <<>> /\ HasSsidElement(elems)) =>
        ssid = FirstSsidData(elems)

C9_Witness ==
    /\ tlvPc = "done"
    /\ tail = <<>>
    /\ elems = <<[eid |-> 0, data |-> <<1>>], [eid |-> 1, data |-> <<0>>]>>
    /\ ssid = <<1>>

\* C10: the walk never moves the cursor past the end of the blob, makes at
\* most one call per two bytes plus one, and on a blob that ends in a
\* truncated element returns what the complete elements before it give:
\* the first SSID among them, else nothing.
C10_TruncatedStopsWalk ==
    /\ cursor <= Len(blob)
    /\ calls <= (Len(blob) \div 2) + 1
    /\ (tlvPc = "done" /\ tail # <<>>) =>
          ssid = IF HasSsidElement(elems) THEN FirstSsidData(elems) ELSE <<>>

C10_Witness ==
    /\ tlvPc = "done"
    /\ elems = <<[eid |-> 1, data |-> <<>>]>>
    /\ tail = <<0, 2, 1>>
    /\ ssid = <<>>
    /\ calls = 2

====
